---- MODULE Spec2Model ----
(***************************************************************************)
(* nix-inspect: path addressing (the text form of a BrowserPath and its    *)
(* parent / child / extend), list cursor wraparound, the navigation stack  *)
(* with the value cache, the evaluation forwarding thread together with    *)
(* the UI update loop, the lock around the Model, text input, and startup  *)
(* (the root expression and the persisted configuration).                  *)
(* Sources: src/src/model.rs and src/src/main.rs.  The message handlers    *)
(* (update.rs), the workers (workers.rs) and the key handler               *)
(* (key_handler.rs) are modelled from the design document.                 *)
(***************************************************************************)
EXTENDS Integers, Sequences, FiniteSets, TLC

VARIABLES
    \* ---- path text form (BrowserPath::to_expr / From<String>) ----
    kind,        \* "path": a BrowserPath is serialized and read back; "canon": a canonical text is parsed and rendered;
                 \* "typed": the BrowserPath read from a typed or stored text is serialized and read back
    inPath,      \* the BrowserPath given (kind "path") or the segments the canonical text is written from (kind "canon")
    text,        \* the text produced by to_expr, or the text given to from
    outPath,     \* the BrowserPath produced by from
    outText,     \* to_expr of outPath
    step,        \* "start", "serialized", "deserialized", "reserialized"
    \* ---- cursor wraparound (next / prev) ----
    wi,          \* the index
    wn,          \* the list length
    wprev,       \* the index before the last move
    wop,         \* the last move: "none", "next", "prev"
    \* ---- Model ----
    visit_stack,      \* Model.visit_stack: sequence of BrowserStackItem, the last is the current view
    path_data,        \* Model.path_data: BrowserPath -> PathData
    root_view_state,  \* Model.root_view_state: the selected entry of the root view
    running_state,    \* Model.running_state
    panicked,         \* the update thread panicked (arithmetic overflow in a checked build)
    lastJump,         \* Some(p) right after update_parent_selection(p), None after any other step
    preJump,          \* path_data as it was before that jump
    \* ---- main: channels, forwarding thread, update loop ----
    pc,               \* the update loop: "check", "draw", "recv", "update", "restore", "exited", "aborted"
    current_msg,      \* main's current_msg: Option<Message>
    ui_queue,         \* the unified message queue (tx, rx)
    req_chan,         \* worker_host.tx: requests in flight, UI to workers
    resp_chan,        \* worker_host.rx: responses in flight, workers to the forwarding thread
    resp_open,        \* the response channel is open
    fwd,              \* the forwarding thread: [pc: "recv" | "send" | "stopped", held: Option<(path, value)>]
    terminal,         \* "raw" while the TUI owns the terminal, "restored" after tui::restore_terminal
    nUser,            \* key events sent so far
    \* ---- history of the run ----
    placed,           \* every response placed on the response channel, in order
    taken,            \* the number of responses the forwarding thread has received
    sent,             \* every Data message the forwarding thread has enqueued, in order
    applied,          \* the number of Data messages the update loop has applied
    recvSinceDraw,    \* messages received from the queue since the last frame
    drawn,            \* a frame has been rendered
    lastMsg,          \* the message the update loop processed last
    lastResult,       \* what update returned for it: tag "OkSome" (with the follow-up), "OkNone" or "Err"; "none" before
    quitSeen,         \* a Quit message has been processed
    stopSnap,         \* None, or what held when the forwarding thread stopped
    \* ---- the reader/writer lock around the Model (Arc<RwLock<Model>>) ----
    lock,             \* [writer: the write guard is held, readers: the threads that hold a read guard]
    mpc,              \* the main thread: "check", "checking", "draw", "drawing", "recv", "write", "apply", "release", "done"
    kpc,              \* the key handler thread: "idle", "reading", "read"
    job,              \* the message being applied and the state changes of it still to make
    committed,        \* the Model as the last completed message left it
    seen,             \* what the key handler has read under its read guard
    \* ---- startup: the root expression (load_config) ----
    args,             \* Args: [expr: Option<String>, path: Option<String>]
    fs,               \* the filesystem: [is_file, dir_flake, etc_flake]
    NIX_PATH,         \* env::var("NIX_PATH"): None when unset, Some(text) otherwise
    root_expr,        \* None before load_config has run, then Some(its result)
    \* ---- Model: the fields a jump leaves alone ----
    recents,               \* Model.recents
    bookmarks,             \* Model.config.bookmarks
    search_input,          \* Model.search_input: InputState
    path_navigator_input,  \* Model.path_navigator_input: InputState
    new_bookmark_input,    \* Model.new_bookmark_input: InputState
    preTop,                \* the kind of the item on top of visit_stack before the jump, "none" before any
    \* ---- BrowserPath::parent / child / extend ----
    apath,            \* the path the method is called on
    afrom,            \* Some(p) when apath was derived from p by child, None otherwise
    aarg,             \* the argument of the last call: a name (child) or a path (extend)
    aop,              \* the last call: "none", "parent", "child", "extend"
    aret,             \* what it returned
    \* ---- InputModel::handle_key_event on the active input ----
    ikey,             \* the last key: "none", "Char", "Backspace", "Left", "Right"
    ipre,             \* the active input as it was before that key
    ipanicked,        \* the key made the thread panic (arithmetic overflow in a checked build)
    \* ---- startup: the persisted configuration ----
    stored,           \* read_config(config_path): None when it fails, Some(config) otherwise
    hostname_file,    \* the text of /proc/sys/kernel/hostname
    USER,             \* env::var("USER")
    written,          \* None, or Some(the configuration written to config_path)
    spc               \* "start" before the configuration is decided, "done" after

pathVars == <<kind, inPath, text, outPath, outText, step>>
wrapVars == <<wi, wn, wprev, wop>>
modelVars == <<visit_stack, path_data, root_view_state, running_state, panicked, lastJump, preJump>>
mainVars == <<pc, current_msg, ui_queue, req_chan, resp_chan, resp_open, fwd, terminal, nUser>>
histVars == <<placed, taken, sent, applied, recvSinceDraw, drawn, lastMsg, lastResult, quitSeen, stopSnap>>
lockVars == <<lock, mpc, kpc, job, committed, seen>>
cfgVars == <<args, fs, NIX_PATH, root_expr>>
sessVars == <<recents, bookmarks, search_input, path_navigator_input, new_bookmark_input>>
algVars == <<apath, afrom, aarg, aop, aret>>
inputVars == <<ikey, ipre, ipanicked>>
seedVars == <<stored, hostname_file, USER, written, spc>>
laterVars == <<lockVars, cfgVars, sessVars, preTop, algVars, inputVars, seedVars>>
vars == <<pathVars, wrapVars, modelVars, mainVars, histVars, laterVars>>

\* ------------------------------------------------------------------ bounds
MaxSegs == 2       \* segments of a path given to to_expr
MaxSegLen == 2     \* characters of a segment
MaxLen == 8        \* list length for next / prev
MaxDepth == 3      \* segments of a path jumped to
MaxUserMsgs == 2   \* key events sent in one run
MaxCursor == 3     \* a cursor that runs past the end of an empty list is followed up to here
MaxNixPath == 5    \* pieces of the text of NIX_PATH
MaxInput == 3      \* characters typed into an input
MaxText == 3       \* characters of a text typed into the navigator or read from storage
MaxName == 3       \* characters of a hostname or of a user name

\* ------------------------------------------------------------ basic types
\* Option<T>
None == <<>>
Some(x) == <<x>>

SeqsUpTo(S, n) == UNION {[1..k -> S] : k \in 0..n}

Dot == "."
Quote == "\""
Chars == {"a", Dot, Quote}

\* segment strings as sequences of characters
Segments == SeqsUpTo(Chars, MaxSegLen)

contains(s, c) == \E i \in 1..Len(s) : s[i] = c

\* ============================================================ BrowserPath
to_expr_element_noquote(result, i, element) ==
    IF i > 0 THEN result \o <<Dot>> \o element ELSE result \o element

\* BrowserPath::to_expr, the body of the enumerate loop for one element
to_expr_element(result, i, element) ==
    LET sep == IF i > 0 THEN result \o <<Dot>> ELSE result
    IN  IF contains(element, Dot)
        THEN sep \o <<Quote>> \o element \o <<Quote>>
        ELSE sep \o element

RECURSIVE to_expr_loop(_, _, _)
to_expr_loop(items, i, result) ==
    IF i >= Len(items) THEN result
    ELSE to_expr_loop(items, i + 1, to_expr_element(result, i, items[i + 1]))

\* BrowserPath::to_expr: a leading empty segment is skipped, the rest joined by '.'
to_expr(p) ==
    LET items == IF Len(p) > 0 /\ Len(p[1]) = 0 THEN Tail(p) ELSE p
    IN  to_expr_loop(items, 0, <<>>)

\* impl From<String> for BrowserPath: the character loop; inq is the inner
\* loop that runs from an opening quote to the closing one or to the end
RECURSIVE from_loop(_, _, _, _, _)
from_loop(value, i, res, cur, inq) ==
    IF i > Len(value) THEN Append(res, cur)
    ELSE LET c == value[i] IN
         IF inq
         THEN IF c = Quote
              THEN from_loop(value, i + 1, res, cur, FALSE)
              ELSE from_loop(value, i + 1, res, Append(cur, c), TRUE)
         ELSE IF c = Dot
              THEN from_loop(value, i + 1, Append(res, cur), <<>>, FALSE)
              ELSE IF c = Quote
                   THEN from_loop(value, i + 1, res, cur, TRUE)
                   ELSE from_loop(value, i + 1, res, Append(cur, c), FALSE)

from(value) == from_loop(value, 1, <<>>, <<>>, FALSE)

\* impl Serialize for BrowserPath: the persisted text is to_expr
serialize(p) == to_expr(p)

\* impl Deserialize for BrowserPath: the persisted text is read with from
deserialize(s) == from(s)

parent_keeps_one(p) == IF Len(p) > 0 THEN Some(SubSeq(p, 1, Len(p) - 1)) ELSE None

\* BrowserPath::parent
parent(p) == IF Len(p) > 1 THEN Some(SubSeq(p, 1, Len(p) - 1)) ELSE None

\* BrowserPath::child
child(p, name) == Append(p, name)

\* BrowserPath::extend
extend(p, other) == p \o other

\* ------------------------------------------------- canonical text (inputs)
NoQuote(p) == \A i \in 1..Len(p) : ~contains(p[i], Quote)

\* non-empty segments free of double quotes
CanonSegments == {s \in Segments : Len(s) > 0 /\ ~contains(s, Quote)}

CanonSegment(s) == IF contains(s, Dot) THEN <<Quote>> \o s \o <<Quote>> ELSE s

RECURSIVE CanonText(_)
CanonText(segs) ==
    IF Len(segs) = 0 THEN <<>>
    ELSE IF Len(segs) = 1 THEN CanonSegment(segs[1])
    ELSE CanonSegment(segs[1]) \o <<Dot>> \o CanonText(Tail(segs))

\* ============================================================ next / prev
\* usize::MAX, the value of 0 - 1 in a build without overflow checks; it stands
\* here as the largest integer of the model checker, above every index and length
\* the model reaches
UsizeMax == 2147483647

\* len - 1 on usize
usize_sub1(len) == IF len = 0 THEN UsizeMax ELSE len - 1

next_nowrap(i, len) == IF i >= len THEN 0 ELSE i + 1

next(i, len) == IF i >= usize_sub1(len) THEN 0 ELSE i + 1

prev(i, len) == IF i = 0 THEN usize_sub1(len) ELSE i - 1

\* select_next / select_prev on a ListState's selected entry
select_next(selected, len) == IF selected = None THEN Some(0) ELSE Some(next(selected[1], len))

select_prev(selected, len) == IF selected = None THEN Some(0) ELSE Some(prev(selected[1], len))

\* the subtraction len - 1 overflows: a panic in a build with overflow checks
next_overflows(selected, len) == selected # None /\ len = 0

prev_overflows(selected, len) == selected # None /\ selected[1] = 0 /\ len = 0

\* ================================================================ PathData
\* workers::NixValue, the values of the evaluation protocol
NixValues ==
    {[tag |-> "Thunk"], [tag |-> "Int", v |-> 1], [tag |-> "Null"],
     [tag |-> "Function"], [tag |-> "Error", e |-> "err"],
     [tag |-> "Attrs", attrs |-> <<"a", "b">>], [tag |-> "Attrs", attrs |-> <<>>],
     [tag |-> "List", size |-> 1]}

Loading == [kind |-> "Loading"]

\* ListData
ListData(list_type, selected, list) ==
    [kind |-> "List", list_type |-> list_type, state |-> selected, list |-> list]

PathData_from_loading(value) ==
    CASE value.tag = "Attrs" -> ListData("Attrset", Some(0), value.attrs)
      [] value.tag = "List" ->
            ListData("List", Some(0), [i \in 1..value.size |-> ToString(i - 1)])
      [] value.tag = "Error" -> [kind |-> "Error", e |-> value.e]
      [] value.tag = "Int" -> [kind |-> "Int", v |-> value.v]
      [] value.tag = "Thunk" -> Loading
      [] OTHER -> [kind |-> value.tag]

\* impl From<NixValue> for PathData
PathData_from(value) ==
    CASE value.tag = "Attrs" -> ListData("Attrset", Some(0), value.attrs)
      [] value.tag = "List" ->
            ListData("List", Some(0), [i \in 1..value.size |-> ToString(i - 1)])
      [] value.tag = "Error" -> [kind |-> "Error", e |-> value.e]
      [] value.tag = "Int" -> [kind |-> "Int", v |-> value.v]
      [] OTHER -> [kind |-> value.tag]

\* HashMap::insert
insert(pd, p, d) == [q \in (DOMAIN pd) \cup {p} |-> IF q = p THEN d ELSE pd[q]]

\* PathDataMap::current_list
current_list(pd, p) ==
    IF p \in DOMAIN pd /\ pd[p].kind = "List" THEN Some(pd[p]) ELSE None

\* ListData::selected
selected(list, current_path) ==
    IF list.state # None /\ list.state[1] < Len(list.list)
    THEN Some(child(current_path, list.list[list.state[1] + 1]))
    ELSE None

\* Iterator::position: the index of the first element equal to x
position(list, x) ==
    IF \E i \in 1..Len(list) : list[i] = x
    THEN Some((CHOOSE i \in 1..Len(list) :
                  list[i] = x /\ \A j \in 1..(i - 1) : list[j] # x) - 1)
    ELSE None

\* ============================================================ BrowserStack
Root == [item |-> "Root"]
Bookmarks == [item |-> "Bookmarks"]
Recents == [item |-> "Recents"]
BrowserPathItem(p) == [item |-> "BrowserPath", path |-> p]

last(s) == s[Len(s)]

reverse(s) == [i \in 1..Len(s) |-> s[Len(s) + 1 - i]]

\* BrowserStack::push_path
push_path(stack, p) == Append(stack, BrowserPathItem(p))

\* BrowserStack::current
current(stack) ==
    IF Len(stack) > 0 /\ last(stack).item = "BrowserPath" THEN Some(last(stack).path) ELSE None

\* BrowserStack::current_force: the path on top; fails when the top is no path
current_force(stack) == last(stack).path

ups_select_or_insert(pd, par, path) ==
    IF par \in DOMAIN pd
    THEN IF pd[par].kind = "List"
         THEN LET pos == position(pd[par].list, last(path))
              IN  IF pos # None THEN [pd EXCEPT ![par].state = pos] ELSE pd
         ELSE pd
    ELSE insert(pd, par, Loading)

\* Model::update_parent_selection, the body of the while loop: the parent's
\* cursor is set to the position of the last segment of path
ups_select(pd, par, path) ==
    IF par \in DOMAIN pd /\ pd[par].kind = "List"
    THEN LET pos == position(pd[par].list, last(path))
         IN  IF pos # None THEN [pd EXCEPT ![par].state = pos] ELSE pd
    ELSE pd

RECURSIVE ups_loop(_, _, _)
ups_loop(path, new_stack, pd) ==
    IF parent(path) = None THEN [stack |-> new_stack, pd |-> pd]
    ELSE LET par == parent(path)[1]
         IN  ups_loop(par, Append(new_stack, BrowserPathItem(par)), ups_select(pd, par, path))

ups_noreverse(current_path, pd) ==
    LET r == ups_loop(current_path, <<BrowserPathItem(current_path)>>, pd)
    IN  [stack |-> Append(r.stack, Root), pd |-> r.pd, root |-> Some(2)]

RECURSIVE ups_loop_first(_, _, _)
ups_loop_first(path, new_stack, pd) ==
    IF parent(path) = None THEN [stack |-> new_stack, pd |-> pd]
    ELSE LET par == parent(path)[1]
         IN  ups_loop_first(par, Append(new_stack, BrowserPathItem(par)),
                            IF par \in DOMAIN pd /\ pd[par].kind = "List"
                            THEN [pd EXCEPT ![par].state = Some(0)] ELSE pd)

ups_selectfirst(current_path, pd) ==
    LET r == ups_loop_first(current_path, <<BrowserPathItem(current_path)>>, pd)
    IN  [stack |-> reverse(Append(r.stack, Root)), pd |-> r.pd, root |-> Some(2)]

ups_root_first(current_path, pd) ==
    LET r == ups_loop(current_path, <<BrowserPathItem(current_path)>>, pd)
    IN  [stack |-> reverse(Append(r.stack, Root)), pd |-> r.pd, root |-> Some(0)]

\* Model::update_parent_selection: the new visit_stack, path_data and root_view_state
update_parent_selection(current_path, pd) ==
    LET r == ups_loop(current_path, <<BrowserPathItem(current_path)>>, pd)
    IN  [stack |-> reverse(Append(r.stack, Root)), pd |-> r.pd, root |-> Some(2)]

\* the proper ancestors update_parent_selection visits: parent(), its parent(), ...
RECURSIVE Ancestors(_)
Ancestors(p) == IF parent(p) = None THEN {} ELSE {parent(p)[1]} \cup Ancestors(parent(p)[1])

\* the segment of p that follows its ancestor a on the route to p
NextSegment(a, p) == p[Len(a) + 1]

\* ======================================================= Model operations
\* (each formula gives the whole effect of one operation on the Model)
Names == {"", "a", "b"}

\* the paths a bookmark, a recent or the navigator can name
JumpPaths == SeqsUpTo(Names, MaxDepth) \ {<<>>}

\* the addresses evaluation requests and responses are about
DataPaths == {<<"">>, <<"", "a">>}

\* the responses the evaluator gives
EvalValues ==
    {v \in NixValues : v.tag \in {"Int", "List"}
                       \/ (v.tag = "Attrs" /\ Len(v.attrs) \in {0, 2})}

\* the cursors the model follows: up to MaxCursor, and usize::MAX
CursorFollowed(sel) == sel[1] <= MaxCursor \/ sel[1] = UsizeMax

NoJump == lastJump' = None /\ preJump' = <<>>

\* Model::update_parent_selection(p)
Jump(p) ==
    LET r == update_parent_selection(p, path_data)
    IN  /\ visit_stack' = r.stack
        /\ path_data' = r.pd
        /\ root_view_state' = r.root
        /\ lastJump' = Some(p)
        /\ preJump' = path_data
        /\ UNCHANGED <<running_state, panicked>>

\* entering an entry of the root view: the Bookmarks marker, the Recents
\* marker or the root address
EnterRoot ==
    /\ last(visit_stack).item = "Root"
    /\ \/ /\ root_view_state = Some(0)
          /\ visit_stack' = Append(visit_stack, Bookmarks)
       \/ /\ root_view_state = Some(1)
          /\ visit_stack' = Append(visit_stack, Recents)
       \/ /\ root_view_state = Some(2)
          /\ visit_stack' = push_path(visit_stack, <<"">>)
    /\ NoJump
    /\ UNCHANGED <<path_data, root_view_state, running_state, panicked>>

\* entering a list-typed node: push_path of the selected child of the current view
EnterChild ==
    LET top == last(visit_stack) IN
    /\ top.item = "BrowserPath"
    /\ current_list(path_data, top.path) # None
    /\ selected(path_data[top.path], top.path) # None
    /\ visit_stack' = push_path(visit_stack, selected(path_data[top.path], top.path)[1])
    /\ NoJump
    /\ UNCHANGED <<path_data, root_view_state, running_state, panicked>>

\* entering a bookmark or a recent: a jump to its address
EnterMarked ==
    /\ last(visit_stack).item \in {"Bookmarks", "Recents"}
    /\ \E p \in JumpPaths : Jump(p)

\* Message::Back: the stack is truncated by one, never below Root
Back ==
    /\ Len(visit_stack) > 1
    /\ visit_stack' = SubSeq(visit_stack, 1, Len(visit_stack) - 1)
    /\ NoJump
    /\ UNCHANGED <<path_data, root_view_state, running_state, panicked>>

\* Message::ListDown / Message::ListUp: the cursor of the current view moves
\* by select_next / select_prev; down is TRUE for ListDown
ListMove(down) ==
    LET top == last(visit_stack)
        move(sel, len) == IF down THEN select_next(sel, len) ELSE select_prev(sel, len)
        overflows(sel, len) == IF down THEN next_overflows(sel, len) ELSE prev_overflows(sel, len)
    IN
    \/ /\ top.item = "Root"
       /\ root_view_state' = move(root_view_state, 3)
       /\ NoJump
       /\ UNCHANGED <<visit_stack, path_data, running_state, panicked>>
    \/ /\ top.item = "BrowserPath"
       /\ current_list(path_data, top.path) # None
       /\ LET l == path_data[top.path] IN
          \/ /\ CursorFollowed(move(l.state, Len(l.list)))
             /\ path_data' = [path_data EXCEPT ![top.path].state = move(l.state, Len(l.list))]
             /\ UNCHANGED panicked
          \/ /\ overflows(l.state, Len(l.list))
             /\ panicked' = TRUE
             /\ UNCHANGED path_data
       /\ NoJump
       /\ UNCHANGED <<visit_stack, root_view_state, running_state>>

\* the cache entry of p is written: the Loading placeholder of a dispatched
\* request, or the PathData of a response
CacheInsert(p, d) ==
    /\ path_data' = insert(path_data, p, d)
    /\ NoJump
    /\ UNCHANGED <<visit_stack, root_view_state, running_state, panicked>>

\* ============================================================ initial states
\* main: the Model the program starts with
InitModel ==
    /\ visit_stack = <<Root>>
    /\ path_data = <<>>
    /\ root_view_state = Some(0)
    /\ running_state = "Running"
    /\ panicked = FALSE
    /\ lastJump = None
    /\ preJump = <<>>

InitMain ==
    /\ pc = "check"
    /\ current_msg = None
    /\ ui_queue = <<>>
    /\ req_chan = <<>>
    /\ resp_chan = <<>>
    /\ resp_open = TRUE
    /\ fwd = [pc |-> "recv", held |-> None]
    /\ terminal = "raw"
    /\ nUser = 0

InitHist ==
    /\ placed = <<>>
    /\ taken = 0
    /\ sent = <<>>
    /\ applied = 0
    /\ recvSinceDraw = 0
    /\ drawn = FALSE
    /\ lastMsg = None
    /\ lastResult = [tag |-> "none", follow |-> None]
    /\ quitSeen = FALSE
    /\ stopSnap = None

InitPathIdle ==
    /\ kind = "idle" /\ inPath = <<>> /\ text = <<>>
    /\ outPath = <<>> /\ outText = <<>> /\ step = "idle"

InitWrapIdle == wi = 0 /\ wn = 1 /\ wprev = 0 /\ wop = "idle"

InitLockIdle ==
    /\ lock = [writer |-> FALSE, readers |-> {}]
    /\ mpc = "idle" /\ kpc = "idle"
    /\ job = None /\ committed = <<>> /\ seen = <<>>

InitCfgIdle ==
    /\ args = [expr |-> None, path |-> None]
    /\ fs = [is_file |-> FALSE, dir_flake |-> FALSE, etc_flake |-> FALSE]
    /\ NIX_PATH = None
    /\ root_expr = None

\* InputState::Normal
Normal == [state |-> "Normal"]

\* main: the Model starts with no recents and inactive inputs (Default)
InitSessIdle ==
    /\ recents = <<>>
    /\ bookmarks = <<>>
    /\ search_input = Normal
    /\ path_navigator_input = Normal
    /\ new_bookmark_input = Normal

InitAlgIdle == apath = <<>> /\ afrom = None /\ aarg = <<>> /\ aop = "idle" /\ aret = <<>>

InitInputIdle == ikey = "idle" /\ ipre = <<>> /\ ipanicked = FALSE

InitSeedIdle ==
    /\ stored = None /\ hostname_file = <<>> /\ USER = <<>>
    /\ written = None /\ spc = "idle"

InitLaterIdle ==
    /\ InitLockIdle /\ InitCfgIdle /\ InitSessIdle /\ preTop = "none" /\ InitAlgIdle
    /\ InitInputIdle /\ InitSeedIdle

\* ================================================== specification: paths
InitPath ==
    /\ \/ /\ kind = "path"
          /\ inPath \in SeqsUpTo(Segments, MaxSegs) \ {<<>>}
          /\ text = <<>>
          /\ step = "start"
       \/ /\ kind = "canon"
          /\ inPath \in SeqsUpTo(CanonSegments, MaxSegs)
          /\ text = <<Dot>> \o CanonText(inPath)
          /\ step = "serialized"
       \/ /\ kind = "typed"
          /\ inPath \in {from(t) : t \in SeqsUpTo(Chars, MaxText)}
          /\ text = <<>>
          /\ step = "start"
    /\ outPath = <<>>
    /\ outText = <<>>
    /\ InitWrapIdle /\ InitModel /\ InitMain /\ InitHist /\ InitLaterIdle

\* a bookmark address is written to storage
Serialize ==
    /\ step = "start"
    /\ text' = serialize(inPath)
    /\ step' = "serialized"
    /\ UNCHANGED <<kind, inPath, outPath, outText, wrapVars, modelVars, mainVars, histVars, laterVars>>

\* a stored or typed text is read
Deserialize ==
    /\ step = "serialized"
    /\ outPath' = deserialize(text)
    /\ step' = "deserialized"
    /\ UNCHANGED <<kind, inPath, text, outText, wrapVars, modelVars, mainVars, histVars, laterVars>>

\* the path read is rendered again
Reserialize ==
    /\ step = "deserialized"
    /\ outText' = to_expr(outPath)
    /\ step' = "reserialized"
    /\ UNCHANGED <<kind, inPath, text, outPath, wrapVars, modelVars, mainVars, histVars, laterVars>>

NextPath == Serialize \/ Deserialize \/ Reserialize

SpecPath == InitPath /\ [][NextPath]_vars

\* ============================================ specification: next / prev
InitWrap ==
    /\ wn \in 1..MaxLen
    /\ wi \in 0..(wn - 1)
    /\ wprev = wi
    /\ wop = "none"
    /\ InitPathIdle /\ InitModel /\ InitMain /\ InitHist /\ InitLaterIdle

ApplyNext ==
    /\ wprev' = wi
    /\ wi' = next(wi, wn)
    /\ wop' = "next"
    /\ UNCHANGED <<wn, pathVars, modelVars, mainVars, histVars, laterVars>>

ApplyPrev ==
    /\ wprev' = wi
    /\ wi' = prev(wi, wn)
    /\ wop' = "prev"
    /\ UNCHANGED <<wn, pathVars, modelVars, mainVars, histVars, laterVars>>

NextWrap == ApplyNext \/ ApplyPrev

SpecWrap == InitWrap /\ [][NextWrap]_vars

\* ============================================= specification: navigation
\* The operations on the Model, one at a time (each message is applied under
\* the write lock); the cache is written for any address of DataPaths.
InitNav == InitPathIdle /\ InitWrapIdle /\ InitModel /\ InitMain /\ InitHist /\ InitLaterIdle

NavRest == UNCHANGED <<pathVars, wrapVars, mainVars, histVars, laterVars>>

NavEnterRoot == ~panicked /\ EnterRoot /\ NavRest

NavEnterChild == ~panicked /\ EnterChild /\ NavRest

NavEnterMarked == ~panicked /\ EnterMarked /\ NavRest

NavBack == ~panicked /\ Back /\ NavRest

NavNavigatorExit == ~panicked /\ (\E p \in JumpPaths : Jump(p)) /\ NavRest

NavListDown == ~panicked /\ ListMove(TRUE) /\ NavRest

NavListUp == ~panicked /\ ListMove(FALSE) /\ NavRest

NavLoading == ~panicked /\ (\E p \in DataPaths : CacheInsert(p, Loading)) /\ NavRest

NavData ==
    /\ ~panicked
    /\ \E p \in DataPaths, v \in EvalValues : CacheInsert(p, PathData_from(v))
    /\ NavRest

NextNav ==
    \/ NavEnterRoot \/ NavEnterChild \/ NavEnterMarked \/ NavBack \/ NavNavigatorExit
    \/ NavListDown \/ NavListUp \/ NavLoading \/ NavData

SpecNav == InitNav /\ [][NextNav]_vars

\* ================================== specification: channels and update loop
\* Message
DataMsg(p, d) == [type |-> "Data", path |-> p, data |-> d]
Quit == [type |-> "Quit"]
Refresh == [type |-> "Refresh"]
CreateBookmark == [type |-> "CreateBookmark"]
BookmarkInputExit == [type |-> "BookmarkInputExit"]
NavigatorExit(p) == [type |-> "NavigatorExit", path |-> p]
CurrentPath(p) == [type |-> "CurrentPath", path |-> p]

\* the messages the key handler sends
UserMsgs == {Quit, Refresh, CreateBookmark} \cup {NavigatorExit(p) : p \in DataPaths}

\* the responses the workers give
WorkerValues == {v \in NixValues : v.tag = "Thunk" \/ (v.tag = "Attrs" /\ Len(v.attrs) = 2)}

\* the process lives until main returns
Alive == pc \notin {"exited", "aborted"}

InitLoop == InitPathIdle /\ InitWrapIdle /\ InitModel /\ InitMain /\ InitHist /\ InitLaterIdle

LoopRest == UNCHANGED <<pathVars, wrapVars, laterVars>>

\* key handler thread: tx.send(message)
UserInput ==
    /\ Alive
    /\ nUser < MaxUserMsgs
    /\ \E m \in UserMsgs : ui_queue' = Append(ui_queue, m)
    /\ nUser' = nUser + 1
    /\ UNCHANGED <<pc, current_msg, req_chan, resp_chan, resp_open, fwd, terminal>>
    /\ UNCHANGED <<modelVars, histVars>>
    /\ LoopRest

\* a worker answers the oldest request: exactly one response (path, value)
WorkerEval ==
    /\ Alive
    /\ resp_open
    /\ req_chan # <<>>
    /\ \E v \in WorkerValues :
          /\ resp_chan' = Append(resp_chan, <<Head(req_chan), v>>)
          /\ placed' = Append(placed, <<Head(req_chan), v>>)
    /\ req_chan' = Tail(req_chan)
    /\ UNCHANGED <<pc, current_msg, ui_queue, resp_open, fwd, terminal, nUser>>
    /\ UNCHANGED <<taken, sent, applied, recvSinceDraw, drawn, lastMsg, lastResult, quitSeen, stopSnap>>
    /\ UNCHANGED modelVars
    /\ LoopRest

\* the worker layer fails: the response channel closes
WorkerClose ==
    /\ Alive
    /\ resp_open
    /\ resp_open' = FALSE
    /\ UNCHANGED <<pc, current_msg, ui_queue, req_chan, resp_chan, fwd, terminal, nUser>>
    /\ UNCHANGED <<modelVars, histVars>>
    /\ LoopRest

\* forwarding thread, worker_rx.recv() returns Ok((p, v)); a closed channel
\* may still hand out what it holds
FwdRecvOk ==
    /\ Alive
    /\ fwd.pc = "recv"
    /\ resp_chan # <<>>
    /\ fwd' = [pc |-> "send", held |-> Some(Head(resp_chan))]
    /\ resp_chan' = Tail(resp_chan)
    /\ taken' = taken + 1
    /\ UNCHANGED <<pc, current_msg, ui_queue, req_chan, resp_open, terminal, nUser>>
    /\ UNCHANGED <<placed, sent, applied, recvSinceDraw, drawn, lastMsg, lastResult, quitSeen, stopSnap>>
    /\ UNCHANGED modelVars
    /\ LoopRest

\* the Data messages waiting in the queue or being processed
PendingData ==
    {ui_queue[i].path : i \in {j \in 1..Len(ui_queue) : ui_queue[j].type = "Data"}}
    \cup (IF current_msg # None /\ current_msg[1].type = "Data" THEN {current_msg[1].path} ELSE {})

\* what holds when worker_rx.recv() returns Err
StopSnap ==
    Some([loading |-> {p \in DOMAIN path_data : path_data[p] = Loading},
          pending |-> PendingData,
          sent |-> Len(sent)])

FwdRecvErr_continue ==
    /\ Alive
    /\ fwd.pc = "recv"
    /\ ~resp_open
    /\ stopSnap' = (IF stopSnap = None THEN StopSnap ELSE stopSnap)
    /\ UNCHANGED <<pc, current_msg, ui_queue, req_chan, resp_chan, resp_open, fwd, terminal, nUser>>
    /\ UNCHANGED <<placed, taken, sent, applied, recvSinceDraw, drawn, lastMsg, lastResult, quitSeen>>
    /\ UNCHANGED modelVars
    /\ LoopRest

\* forwarding thread, worker_rx.recv() returns Err: break
FwdRecvErr ==
    /\ Alive
    /\ fwd.pc = "recv"
    /\ ~resp_open
    /\ fwd' = [pc |-> "stopped", held |-> None]
    /\ stopSnap' = StopSnap
    /\ UNCHANGED <<pc, current_msg, ui_queue, req_chan, resp_chan, resp_open, terminal, nUser>>
    /\ UNCHANGED <<placed, taken, sent, applied, recvSinceDraw, drawn, lastMsg, lastResult, quitSeen>>
    /\ UNCHANGED modelVars
    /\ LoopRest

FwdSend_drop ==
    /\ Alive
    /\ fwd.pc = "send"
    /\ fwd' = [pc |-> "recv", held |-> None]
    /\ UNCHANGED <<pc, current_msg, ui_queue, req_chan, resp_chan, resp_open, terminal, nUser>>
    /\ UNCHANGED <<modelVars, histVars>>
    /\ LoopRest

\* forwarding thread: tx.send(Message::Data(p, v.into()))
FwdSend ==
    /\ Alive
    /\ fwd.pc = "send"
    /\ LET m == DataMsg(fwd.held[1][1], PathData_from(fwd.held[1][2]))
       IN  /\ ui_queue' = Append(ui_queue, m)
           /\ sent' = Append(sent, m)
    /\ fwd' = [pc |-> "recv", held |-> None]
    /\ UNCHANGED <<pc, current_msg, req_chan, resp_chan, resp_open, terminal, nUser>>
    /\ UNCHANGED <<placed, taken, applied, recvSinceDraw, drawn, lastMsg, lastResult, quitSeen, stopSnap>>
    /\ UNCHANGED modelVars
    /\ LoopRest

Fwd == FwdRecvOk \/ FwdRecvErr \/ FwdSend

\* main: while model.read().running_state != RunningState::Stopped
UiCheck ==
    /\ pc = "check"
    /\ pc' = (IF running_state # "Stopped" THEN "draw" ELSE "restore")
    /\ UNCHANGED <<current_msg, ui_queue, req_chan, resp_chan, resp_open, fwd, terminal, nUser>>
    /\ UNCHANGED <<modelVars, histVars>>
    /\ LoopRest

\* main: terminal.draw(..)?  A frame is rendered, or main returns the error
UiDraw ==
    /\ pc = "draw"
    /\ \/ /\ pc' = "recv"
          /\ drawn' = TRUE
          /\ recvSinceDraw' = 0
       \/ /\ pc' = "aborted"
          /\ UNCHANGED <<drawn, recvSinceDraw>>
    /\ UNCHANGED <<current_msg, ui_queue, req_chan, resp_chan, resp_open, fwd, terminal, nUser>>
    /\ UNCHANGED <<placed, taken, sent, applied, lastMsg, lastResult, quitSeen, stopSnap>>
    /\ UNCHANGED modelVars
    /\ LoopRest

\* main: let mut current_msg = Some(rx.recv()?), blocking while the queue is empty
UiRecv ==
    /\ pc = "recv"
    /\ ui_queue # <<>>
    /\ current_msg' = Some(Head(ui_queue))
    /\ ui_queue' = Tail(ui_queue)
    /\ pc' = "update"
    /\ recvSinceDraw' = recvSinceDraw + 1
    /\ lastResult' = [tag |-> "none", follow |-> None]
    /\ UNCHANGED <<req_chan, resp_chan, resp_open, fwd, terminal, nUser>>
    /\ UNCHANGED <<placed, taken, sent, applied, drawn, lastMsg, quitSeen, stopSnap>>
    /\ UNCHANGED modelVars
    /\ LoopRest

\* update_context.update(&view_data, &mut model.write(), msg): the effect on
\* the Model and on the request channel, and the result: "OkSome" with the
\* follow-up message, "OkNone" or "Err"
Update(msg, result, follow) ==
    \/ /\ msg.type = "Data"
       /\ CacheInsert(msg.path, msg.data)
       /\ UNCHANGED req_chan
       /\ result = "OkNone" /\ follow = None
    \/ /\ msg.type = "Quit"
       /\ running_state' = "Stopped"
       /\ NoJump
       /\ UNCHANGED <<visit_stack, path_data, root_view_state, panicked, req_chan>>
       /\ result = "OkNone" /\ follow = None
    \/ /\ msg.type = "Refresh"
       /\ IF current(visit_stack) # None
          THEN /\ path_data' = insert(path_data, current(visit_stack)[1], Loading)
               /\ req_chan' = Append(req_chan, current(visit_stack)[1])
          ELSE UNCHANGED <<path_data, req_chan>>
       /\ NoJump
       /\ UNCHANGED <<visit_stack, root_view_state, running_state, panicked>>
       /\ result = "OkNone" /\ follow = None
    \/ /\ msg.type = "NavigatorExit"
       /\ NoJump
       /\ UNCHANGED <<visit_stack, path_data, root_view_state, running_state, panicked, req_chan>>
       /\ result = "OkSome" /\ follow = Some(CurrentPath(msg.path))
    \/ /\ msg.type = "CurrentPath"
       /\ LET r == update_parent_selection(msg.path, path_data)
          IN  /\ visit_stack' = r.stack
              /\ root_view_state' = r.root
              /\ lastJump' = Some(msg.path)
              /\ preJump' = path_data
              /\ IF msg.path \in DOMAIN path_data
                 THEN path_data' = r.pd /\ UNCHANGED req_chan
                 ELSE /\ path_data' = insert(r.pd, msg.path, Loading)
                      /\ req_chan' = Append(req_chan, msg.path)
       /\ UNCHANGED <<running_state, panicked>>
       /\ result = "OkNone" /\ follow = None
    \/ /\ msg.type = "CreateBookmark"
       /\ NoJump
       /\ UNCHANGED <<visit_stack, path_data, root_view_state, running_state, panicked, req_chan>>
       /\ \/ result = "OkSome" /\ follow = Some(BookmarkInputExit)
          \/ result = "Err" /\ follow = None
    \/ /\ msg.type = "BookmarkInputExit"
       /\ NoJump
       /\ UNCHANGED <<visit_stack, path_data, root_view_state, running_state, panicked, req_chan>>
       /\ result = "OkNone" /\ follow = None

Results == {"OkSome", "OkNone", "Err"}
Follows == {None} \cup {Some(CurrentPath(p)) : p \in DataPaths} \cup {Some(BookmarkInputExit)}

UiUpdate_norender ==
    /\ pc = "update"
    /\ \E result \in Results, follow \in Follows :
          /\ Update(current_msg[1], result, follow)
          /\ lastResult' = [tag |-> result, follow |-> follow]
          /\ current_msg' = (IF result = "OkSome" THEN follow ELSE None)
          /\ pc' = (IF result = "OkSome" THEN "update" ELSE "recv")
    /\ lastMsg' = current_msg
    /\ applied' = applied + (IF current_msg[1].type = "Data" THEN 1 ELSE 0)
    /\ quitSeen' = (quitSeen \/ current_msg[1].type = "Quit")
    /\ UNCHANGED <<ui_queue, resp_chan, resp_open, fwd, terminal, nUser>>
    /\ UNCHANGED <<placed, taken, sent, recvSinceDraw, drawn, stopSnap>>
    /\ LoopRest

\* main: while let Some(msg) = current_msg: one message is processed; Ok(msg)
\* makes the message returned the next one, Err ends the chain
UiUpdate ==
    /\ pc = "update"
    /\ \E result \in Results, follow \in Follows :
          /\ Update(current_msg[1], result, follow)
          /\ lastResult' = [tag |-> result, follow |-> follow]
          /\ current_msg' = (IF result = "Err" THEN None ELSE follow)
          /\ pc' = (IF result # "Err" /\ follow # None THEN "update" ELSE "check")
    /\ lastMsg' = current_msg
    /\ applied' = applied + (IF current_msg[1].type = "Data" THEN 1 ELSE 0)
    /\ quitSeen' = (quitSeen \/ current_msg[1].type = "Quit")
    /\ UNCHANGED <<ui_queue, resp_chan, resp_open, fwd, terminal, nUser>>
    /\ UNCHANGED <<placed, taken, sent, recvSinceDraw, drawn, stopSnap>>
    /\ LoopRest

\* main: tui::restore_terminal()?; Ok(())
UiRestore ==
    /\ pc = "restore"
    /\ terminal' = "restored"
    /\ pc' = "exited"
    /\ UNCHANGED <<current_msg, ui_queue, req_chan, resp_chan, resp_open, fwd, nUser>>
    /\ UNCHANGED <<modelVars, histVars>>
    /\ LoopRest

UiLoop == UiCheck \/ UiDraw \/ UiRecv \/ UiUpdate \/ UiRestore

NextLoop ==
    \/ UserInput \/ WorkerEval \/ WorkerClose
    \/ FwdRecvOk \/ FwdRecvErr \/ FwdSend
    \/ UiCheck \/ UiDraw \/ UiRecv \/ UiUpdate \/ UiRestore

SpecLoop == InitLoop /\ [][NextLoop]_vars

\* the update loop and the forwarding thread are threads of their own: each
\* runs whenever it can
FairLoop == SpecLoop /\ WF_vars(UiLoop) /\ WF_vars(Fwd)

\* =========================== specification: the lock around the Model
\* main.rs: the Model lives in an Arc<RwLock<Model>>; the main thread reads it
\* for the loop condition and for rendering and writes it to apply a message;
\* the key handler thread holds a clone of the Arc.
\* the addresses jumped to
LockPaths == {<<"", "b">>, <<"", "a", "b">>}

\* the values of the responses applied
LockValues == {v \in NixValues : v.tag = "Int" \/ (v.tag = "Attrs" /\ Len(v.attrs) = 2)}

\* the Model as a reader sees it
Snapshot ==
    [stack |-> visit_stack, pd |-> path_data, root |-> root_view_state,
     running |-> running_state]

can_write_despite_readers(l) == ~l.writer

\* RwLock::write: granted when no guard is held
can_write(l) == ~l.writer /\ l.readers = {}

\* RwLock::read: granted when no write guard is held
can_read(l) == ~l.writer

\* the messages of this specification
LockMsgs ==
    {CurrentPath(p) : p \in LockPaths}
    \cup {DataMsg(p, PathData_from(v)) : p \in DataPaths, v \in LockValues}
    \cup {Quit}

\* the state changes applying a message makes, in order: for a jump the
\* cursors of the ancestors, the root cursor and the stack
\* (update_parent_selection), then the Loading placeholder of an uncached target
Changes(msg) ==
    CASE msg.type = "CurrentPath" ->
            IF msg.path \in DOMAIN path_data
            THEN <<"cursors", "root", "stack">>
            ELSE <<"cursors", "root", "stack", "placeholder">>
      [] msg.type = "Data" -> <<"insert">>
      [] OTHER -> <<"stop">>

InitLock ==
    /\ InitPathIdle /\ InitWrapIdle /\ InitModel /\ InitMain /\ InitHist
    /\ lock = [writer |-> FALSE, readers |-> {}]
    /\ mpc = "check"
    /\ kpc = "idle"
    /\ job = None
    /\ committed = Snapshot
    /\ seen = <<>>
    /\ InitCfgIdle /\ InitSessIdle /\ preTop = "none" /\ InitAlgIdle
    /\ InitInputIdle /\ InitSeedIdle

LockRest ==
    UNCHANGED <<pathVars, wrapVars, mainVars, histVars, cfgVars, sessVars, preTop, algVars,
                inputVars, seedVars>>

\* main: model.read() of the loop condition
MainCheckLock ==
    /\ mpc = "check"
    /\ can_read(lock)
    /\ lock' = [lock EXCEPT !.readers = @ \cup {"main"}]
    /\ mpc' = "checking"
    /\ UNCHANGED <<kpc, job, committed, seen, modelVars>>
    /\ LockRest

\* main: running_state != RunningState::Stopped is evaluated, the guard dropped
MainCheckUnlock ==
    /\ mpc = "checking"
    /\ lock' = [lock EXCEPT !.readers = @ \ {"main"}]
    /\ mpc' = (IF running_state # "Stopped" THEN "draw" ELSE "done")
    /\ UNCHANGED <<kpc, job, committed, seen, modelVars>>
    /\ LockRest

\* main: view(&model.read(), f) inside terminal.draw
MainDrawLock ==
    /\ mpc = "draw"
    /\ can_read(lock)
    /\ lock' = [lock EXCEPT !.readers = @ \cup {"main"}]
    /\ mpc' = "drawing"
    /\ UNCHANGED <<kpc, job, committed, seen, modelVars>>
    /\ LockRest

\* main: the frame is produced, the guard dropped
MainDrawUnlock ==
    /\ mpc = "drawing"
    /\ lock' = [lock EXCEPT !.readers = @ \ {"main"}]
    /\ mpc' = "recv"
    /\ UNCHANGED <<kpc, job, committed, seen, modelVars>>
    /\ LockRest

\* main: rx.recv() hands out a message
MainRecv ==
    /\ mpc = "recv"
    /\ \E msg \in LockMsgs : job' = Some([msg |-> msg, todo |-> Changes(msg)])
    /\ mpc' = "write"
    /\ UNCHANGED <<lock, kpc, committed, seen, modelVars>>
    /\ LockRest

\* main: model.write(), the argument of update_context.update
MainWriteLock ==
    /\ mpc = "write"
    /\ can_write(lock)
    /\ lock' = [lock EXCEPT !.writer = TRUE]
    /\ mpc' = "apply"
    /\ UNCHANGED <<kpc, job, committed, seen, modelVars>>
    /\ LockRest

\* main: update applies the next state change of the message under the write guard
MainApply ==
    /\ mpc = "apply"
    /\ LET msg == job[1].msg
           change == Head(job[1].todo)
       IN  /\ path_data' =
                (CASE change = "cursors" ->
                        ups_loop(msg.path, <<BrowserPathItem(msg.path)>>, path_data).pd
                   [] change = "placeholder" -> insert(path_data, msg.path, Loading)
                   [] change = "insert" -> insert(path_data, msg.path, msg.data)
                   [] OTHER -> path_data)
           /\ root_view_state' = (IF change = "root" THEN Some(2) ELSE root_view_state)
           /\ visit_stack' =
                (IF change = "stack"
                 THEN update_parent_selection(msg.path, path_data).stack
                 ELSE visit_stack)
           /\ running_state' = (IF change = "stop" THEN "Stopped" ELSE running_state)
           /\ job' = Some([msg |-> msg, todo |-> Tail(job[1].todo)])
           /\ mpc' = (IF Len(job[1].todo) = 1 THEN "release" ELSE "apply")
    /\ UNCHANGED <<lock, kpc, committed, seen, panicked, lastJump, preJump>>
    /\ LockRest

\* main: update has returned, the write guard is dropped
MainWriteUnlock ==
    /\ mpc = "release"
    /\ lock' = [lock EXCEPT !.writer = FALSE]
    /\ committed' = Snapshot
    /\ job' = None
    /\ mpc' = "check"
    /\ UNCHANGED <<kpc, seen, modelVars>>
    /\ LockRest

\* key handler thread: model.read()
KeyReadLock ==
    /\ mpc # "done"
    /\ kpc = "idle"
    /\ can_read(lock)
    /\ lock' = [lock EXCEPT !.readers = @ \cup {"key"}]
    /\ kpc' = "reading"
    /\ seen' = <<>>
    /\ UNCHANGED <<mpc, job, committed, modelVars>>
    /\ LockRest

\* key handler thread: it reads the stack, then the cache
KeyRead ==
    /\ kpc = "reading"
    /\ seen' = (IF seen = <<>> THEN <<visit_stack>> ELSE <<seen[1], path_data>>)
    /\ kpc' = (IF seen = <<>> THEN "reading" ELSE "read")
    /\ UNCHANGED <<lock, mpc, job, committed, modelVars>>
    /\ LockRest

\* key handler thread: the guard is dropped
KeyReadUnlock ==
    /\ kpc = "read"
    /\ lock' = [lock EXCEPT !.readers = @ \ {"key"}]
    /\ kpc' = "idle"
    /\ UNCHANGED <<mpc, job, committed, seen, modelVars>>
    /\ LockRest

NextLock ==
    \/ MainCheckLock \/ MainCheckUnlock \/ MainDrawLock \/ MainDrawUnlock
    \/ MainRecv \/ MainWriteLock \/ MainApply \/ MainWriteUnlock
    \/ KeyReadLock \/ KeyRead \/ KeyReadUnlock

SpecLock == InitLock /\ [][NextLock]_vars

\* ====================== specification: the root expression at startup
\* Result<T>
Ok(x) == [ok |-> TRUE, v |-> x]
Err == [ok |-> FALSE]

\* The text of NIX_PATH is a sequence of pieces: the separators ':' and '=',
\* the name nixos-config, and x, a run of other characters.
NixPathPieces == {"nixos-config", "x", "=", ":"}

\* str::split: the pieces between the separators, at least one
RECURSIVE split(_, _, _)
split(s, sep, cur) ==
    IF s = <<>> THEN <<cur>>
    ELSE IF Head(s) = sep THEN <<cur>> \o split(Tail(s), sep, <<>>)
    ELSE split(Tail(s), sep, Append(cur, Head(s)))

\* str::split_once: the text before and after the first separator
split_once(s, sep) ==
    IF \E i \in 1..Len(s) : s[i] = sep
    THEN LET i == CHOOSE i \in 1..Len(s) : s[i] = sep /\ \A j \in 1..(i - 1) : s[j] # sep
         IN  Some(<<SubSeq(s, 1, i - 1), SubSeq(s, i + 1, Len(s))>>)
    ELSE None

\* Iterator::filter_map
RECURSIVE filter_map_split_once(_)
filter_map_split_once(entries) ==
    IF entries = <<>> THEN <<>>
    ELSE LET r == split_once(Head(entries), "=")
         IN  (IF r = None THEN <<>> ELSE <<r[1]>>) \o filter_map_split_once(Tail(entries))

\* Iterator::find for the key nixos-config
find_nixos_config(pairs) ==
    IF \E i \in 1..Len(pairs) : pairs[i][1] = <<"nixos-config">>
    THEN Some(pairs[CHOOSE i \in 1..Len(pairs) :
                       /\ pairs[i][1] = <<"nixos-config">>
                       /\ \A j \in 1..(i - 1) : pairs[j][1] # <<"nixos-config">>])
    ELSE None

\* find_in_nix_path
find_in_nix_path(env) ==
    IF env = None THEN Err
    ELSE LET found == find_nixos_config(filter_map_split_once(split(env[1], ":", <<>>)))
         IN  IF found = None THEN Err ELSE Ok(found[1][2])

\* the expressions load_config returns: the --expr text as it is, or one of
\* the two formats with the path put in
Inline(expr) == [form |-> "inline", arg |-> expr]
GetFlake(path) == [form |-> "getFlake", arg |-> path]
ImportConfiguration(path) == [form |-> "import", arg |-> path]
EtcNixos == <<"/etc/nixos">>

\* str::ends_with("flake.nix") on a path given as pieces
ends_with_flake_nix(path) == path # <<>> /\ path[Len(path)] = "flake.nix"

load_config_path_first(a, f, env) ==
    IF a.path # None
    THEN IF (f.is_file /\ ends_with_flake_nix(a.path[1])) \/ f.dir_flake
         THEN Ok(GetFlake(a.path[1]))
         ELSE Ok(ImportConfiguration(a.path[1]))
    ELSE IF a.expr # None THEN Ok(Inline(a.expr[1]))
    ELSE IF f.etc_flake THEN Ok(GetFlake(EtcNixos))
    ELSE LET r == find_in_nix_path(env)
         IN  Ok(ImportConfiguration(IF r.ok THEN r.v ELSE EtcNixos))

\* load_config
load_config(a, f, env) ==
    IF a.expr # None THEN Ok(Inline(a.expr[1]))
    ELSE IF a.path # None
    THEN LET is_flake == (f.is_file /\ ends_with_flake_nix(a.path[1])) \/ f.dir_flake
         IN  IF is_flake
             THEN Ok(GetFlake(a.path[1]))
             ELSE Ok(ImportConfiguration(a.path[1]))
    ELSE IF f.etc_flake THEN Ok(GetFlake(EtcNixos))
    ELSE LET r == find_in_nix_path(env)
         IN  Ok(ImportConfiguration(IF r.ok THEN r.v ELSE EtcNixos))

\* the --path arguments: a directory, a flake.nix file, another file
ArgPaths == {<<"/d">>, <<"/d/", "flake.nix">>, <<"/d/", "x.nix">>}

\* every combination of arguments, filesystem and environment; is_file and
\* dir_flake are about the --path argument, and a file has no flake.nix in it
InitCfg ==
    /\ args \in [expr : {None, Some(<<"e">>)}, path : {None} \cup {Some(p) : p \in ArgPaths}]
    /\ fs \in [is_file : BOOLEAN, dir_flake : BOOLEAN, etc_flake : BOOLEAN]
    /\ args.path = None => (~fs.is_file /\ ~fs.dir_flake)
    /\ fs.is_file => ~fs.dir_flake
    /\ NIX_PATH \in {None} \cup {Some(t) : t \in SeqsUpTo(NixPathPieces, MaxNixPath)}
    /\ root_expr = None
    /\ InitPathIdle /\ InitWrapIdle /\ InitModel /\ InitMain /\ InitHist /\ InitLockIdle
    /\ InitSessIdle /\ preTop = "none" /\ InitAlgIdle /\ InitInputIdle /\ InitSeedIdle

\* main: let expr = load_config(&args)?
LoadConfig ==
    /\ root_expr = None
    /\ root_expr' = Some(load_config(args, fs, NIX_PATH))
    /\ UNCHANGED <<args, fs, NIX_PATH>>
    /\ UNCHANGED <<pathVars, wrapVars, modelVars, mainVars, histVars, lockVars, sessVars, preTop,
                 algVars, inputVars, seedVars>>

NextCfg == LoadConfig

SpecCfg == InitCfg /\ [][NextCfg]_vars

\* ==================================== specification: one jump, any Model
\* InputState::Active(InputModel)
Active(input, cursor_position) ==
    [state |-> "Active", typing |-> TRUE, input |-> input, cursor_position |-> cursor_position]

\* Bookmark
Bookmark(display, path) == [display |-> display, path |-> path]

\* the stacks a jump can find: the root view, a marker on top of it, or the
\* chain of a path
PriorPaths == DataPaths \cup {<<"a">>}
PriorStacks ==
    {<<Root>>, <<Root, Bookmarks>>, <<Root, Recents>>}
    \cup {update_parent_selection(q, <<>>).stack : q \in PriorPaths}

\* the cache entries a jump can find, lists with their cursor at any child
PriorData ==
    LET fresh == {PathData_from(v) : v \in EvalValues}
    IN  {Loading} \cup fresh
        \cup {[d EXCEPT !.state = Some(i)] :
                 d \in {e \in fresh : e.kind = "List"}, i \in 0..1}

PriorCaches ==
    {pd \in UNION {[K -> PriorData] : K \in SUBSET DataPaths} :
        \A a \in DOMAIN pd :
           pd[a].kind = "List" => (pd[a].state[1] = 0 \/ pd[a].state[1] < Len(pd[a].list))}

\* the three inputs: at most one is active
PriorInputs ==
    {<<Normal, Normal, Normal>>, <<Active(<<"a">>, 1), Normal, Normal>>,
     <<Normal, Active(<<"a">>, 0), Normal>>, <<Normal, Normal, Active(<<>>, 0)>>}

InitJump ==
    /\ visit_stack \in PriorStacks
    /\ path_data \in PriorCaches
    /\ root_view_state \in {Some(0), Some(1), Some(2)}
    /\ running_state = "Running"
    /\ panicked = FALSE
    /\ lastJump = None
    /\ preJump = <<>>
    /\ preTop = "none"
    /\ recents \in {<<>>, << <<"", "a">> >>}
    /\ bookmarks \in {<<>>, <<Bookmark(<<"h">>, <<"", "a">>)>>}
    /\ \E t \in PriorInputs :
          /\ search_input = t[1]
          /\ path_navigator_input = t[2]
          /\ new_bookmark_input = t[3]
    /\ InitPathIdle /\ InitWrapIdle /\ InitMain /\ InitHist /\ InitLockIdle /\ InitCfgIdle /\ InitAlgIdle
    /\ InitInputIdle /\ InitSeedIdle

\* Model::update_parent_selection(p) on that Model; it is given the Model
\* and assigns path_data entries, root_view_state and visit_stack
JumpTo ==
    /\ lastJump = None
    /\ \E p \in JumpPaths : Jump(p)
    /\ preTop' = last(visit_stack).item
    /\ UNCHANGED sessVars
    /\ UNCHANGED <<pathVars, wrapVars, mainVars, histVars, lockVars, cfgVars, algVars,
                 inputVars, seedVars>>

NextJump == JumpTo

SpecJump == InitJump /\ [][NextJump]_vars

\* ================================ specification: parent / child / extend
\* Each call is made on apath; child and extend can be followed by calls on
\* the path they returned.
InitAlg ==
    /\ apath \in SeqsUpTo(Names, MaxSegs)
    /\ afrom = None
    /\ aarg = <<>>
    /\ aop = "none"
    /\ aret = <<>>
    /\ InitPathIdle /\ InitWrapIdle /\ InitModel /\ InitMain /\ InitHist
    /\ InitLockIdle /\ InitCfgIdle /\ InitSessIdle /\ preTop = "none"
    /\ InitInputIdle /\ InitSeedIdle

AlgRest ==
    UNCHANGED <<pathVars, wrapVars, modelVars, mainVars, histVars, lockVars, cfgVars,
                sessVars, preTop, inputVars, seedVars>>

\* p.parent(): &self
ApplyParent ==
    /\ aret' = parent(apath)
    /\ aop' = "parent"
    /\ aarg' = <<>>
    /\ UNCHANGED <<apath, afrom>>
    /\ AlgRest

\* p.child(name): &self, the segments are cloned
ApplyChild ==
    /\ \E name \in Names :
          /\ aret' = child(apath, name)
          /\ aarg' = name
    /\ aop' = "child"
    /\ UNCHANGED <<apath, afrom>>
    /\ AlgRest

\* p.extend(&other): the receiver is taken by value, so apath stands for the
\* path the caller still holds; other is borrowed
ApplyExtend ==
    /\ \E other \in SeqsUpTo(Names, MaxSegs) :
          /\ aret' = extend(apath, other)
          /\ aarg' = other
    /\ aop' = "extend"
    /\ UNCHANGED <<apath, afrom>>
    /\ AlgRest

\* the next calls are made on the path returned
Continue ==
    /\ aop \in {"child", "extend"}
    /\ Len(aret) <= MaxSegs + 1
    /\ apath' = aret
    /\ afrom' = (IF aop = "child" THEN Some(apath) ELSE None)
    /\ aop' = "none"
    /\ UNCHANGED <<aarg, aret>>
    /\ AlgRest

NextAlg == ApplyParent \/ ApplyChild \/ ApplyExtend \/ Continue

SpecAlg == InitAlg /\ [][NextAlg]_vars

\* ================================== specification: keys to a text input
\* An InputModel is the record Active(input, cursor_position); the buffer is
\* a sequence of one-byte characters.

\* String::insert(idx, c)
String_insert(str, idx, c) == SubSeq(str, 1, idx) \o <<c>> \o SubSeq(str, idx + 1, Len(str))

\* InputModel::clamp_cursor: pos.clamp(0, self.input.len())
clamp_cursor(m, pos) ==
    IF pos < 0 THEN 0 ELSE IF pos > Len(m.input) THEN Len(m.input) ELSE pos

\* InputModel::insert
InputModel_insert(m, c) ==
    [m EXCEPT !.input = String_insert(m.input, m.cursor_position, c),
              !.cursor_position = m.cursor_position + 1]

\* InputModel::move_cursor_left: cursor_position - 1 on usize
move_cursor_left(m) ==
    [m EXCEPT !.cursor_position = clamp_cursor(m, usize_sub1(m.cursor_position))]

\* InputModel::move_cursor_right
move_cursor_right(m) ==
    [m EXCEPT !.cursor_position = clamp_cursor(m, m.cursor_position + 1)]

\* InputModel::backspace
backspace(m) ==
    IF m.cursor_position = 0 THEN m
    ELSE LET current_index == m.cursor_position
             from_left_to_current_index == current_index - 1
             before_char_to_delete == SubSeq(m.input, 1, from_left_to_current_index)
             after_char_to_delete == SubSeq(m.input, current_index + 1, Len(m.input))
         IN  move_cursor_left([m EXCEPT !.input = before_char_to_delete \o after_char_to_delete])

\* InputModel::handle_key_event
handle_key_event(m, key) ==
    CASE key.code = "Char" -> InputModel_insert(m, key.c)
      [] key.code = "Backspace" -> backspace(m)
      [] key.code = "Left" -> move_cursor_left(m)
      [] key.code = "Right" -> move_cursor_right(m)
      [] OTHER -> m

\* the subtraction cursor_position - 1 overflows: a panic in a build with
\* overflow checks (backspace returns before it at cursor 0)
key_overflows(m, key) == key.code = "Left" /\ m.cursor_position = 0

\* the input that is active
ActiveInput ==
    IF search_input.state = "Active" THEN search_input
    ELSE IF path_navigator_input.state = "Active" THEN path_navigator_input
    ELSE new_bookmark_input

SetActiveInput(m) ==
    /\ search_input' = (IF search_input.state = "Active" THEN m ELSE search_input)
    /\ path_navigator_input' =
          (IF search_input.state # "Active" /\ path_navigator_input.state = "Active"
           THEN m ELSE path_navigator_input)
    /\ new_bookmark_input' =
          (IF search_input.state # "Active" /\ path_navigator_input.state # "Active"
           THEN m ELSE new_bookmark_input)

\* one of the three inputs has just been entered: empty buffer, cursor 0
InitInput ==
    /\ \E t \in {<<Active(<<>>, 0), Normal, Normal>>, <<Normal, Active(<<>>, 0), Normal>>,
                 <<Normal, Normal, Active(<<>>, 0)>>} :
          /\ search_input = t[1]
          /\ path_navigator_input = t[2]
          /\ new_bookmark_input = t[3]
    /\ recents = <<>>
    /\ bookmarks = <<>>
    /\ ikey = "none"
    /\ ipre = ActiveInput
    /\ ipanicked = FALSE
    /\ InitPathIdle /\ InitWrapIdle /\ InitModel /\ InitMain /\ InitHist
    /\ InitLockIdle /\ InitCfgIdle /\ preTop = "none" /\ InitAlgIdle /\ InitSeedIdle

InputRest ==
    UNCHANGED <<pathVars, wrapVars, modelVars, mainVars, histVars, lockVars, cfgVars,
                preTop, algVars, seedVars, recents, bookmarks>>

\* a key event reaches the active input; a subtraction that overflows either
\* wraps (unchecked build) or panics (checked build)
Key(key) ==
    /\ ~ipanicked
    /\ key.code = "Char" => Len(ActiveInput.input) < MaxInput
    /\ ikey' = key.code
    /\ ipre' = ActiveInput
    /\ \/ /\ SetActiveInput(handle_key_event(ActiveInput, key))
          /\ UNCHANGED ipanicked
       \/ /\ key_overflows(ActiveInput, key)
          /\ ipanicked' = TRUE
          /\ UNCHANGED <<search_input, path_navigator_input, new_bookmark_input>>
    /\ InputRest

KeyChar == \E c \in {"a", "b"} : Key([code |-> "Char", c |-> c])
KeyBackspace == Key([code |-> "Backspace"])
KeyLeft == Key([code |-> "Left"])
KeyRight == Key([code |-> "Right"])

NextInput == KeyChar \/ KeyBackspace \/ KeyLeft \/ KeyRight

SpecInput == InitInput /\ [][NextInput]_vars

\* ===================== specification: the configuration at startup
\* Texts are sequences of pieces: the characters '.', 'a' and newline, and
\* the words of the two formats, each a run of characters other than '.'
\* and '"'.
Whitespace == {"\n", " "}

\* str::trim
RECURSIVE trim(_)
trim(str) ==
    IF str = <<>> THEN str
    ELSE IF Head(str) \in Whitespace THEN trim(Tail(str))
    ELSE IF str[Len(str)] \in Whitespace THEN trim(SubSeq(str, 1, Len(str) - 1))
    ELSE str

\* format!(".nixosConfigurations.{}", hostname.trim())
hostname_path(hostname) == <<Dot, "nixosConfigurations", Dot>> \o trim(hostname)

\* format!("{hostname_path}.config.home-manager.users.{user}")
user_path(hostname, user) ==
    hostname_path(hostname) \o <<Dot, "config", Dot, "home-manager", Dot, "users", Dot>> \o user

\* main: the Config of a first run
seed_config(hostname, user) ==
    <<Bookmark(hostname, from(hostname_path(hostname))),
      Bookmark(user, from(user_path(hostname, user)))>>

\* serde_json::to_string_pretty(&config): every address goes through Serialize
config_to_string(config) ==
    [i \in 1..Len(config) |->
        [display |-> config[i].display, path |-> serialize(config[i].path)]]

\* the names of hosts and users
NameTexts == SeqsUpTo({"a", Dot}, MaxName) \ {<<>>}

\* the configurations read_config can return
StoredConfigs == {<<>>, <<Bookmark(<<"h">>, <<<<"a">>>>)>>}

InitSeed ==
    /\ stored \in {None} \cup {Some(c) : c \in StoredConfigs}
    /\ hostname_file \in {h \o <<"\n">> : h \in NameTexts}
    /\ USER \in {None} \cup {Some(u) : u \in NameTexts}
    /\ written = None
    /\ spc = "start"
    /\ InitSessIdle
    /\ InitPathIdle /\ InitWrapIdle /\ InitModel /\ InitMain /\ InitHist
    /\ InitLockIdle /\ InitCfgIdle /\ preTop = "none" /\ InitAlgIdle /\ InitInputIdle

SeedRest ==
    UNCHANGED <<pathVars, wrapVars, modelVars, mainVars, histVars, lockVars, cfgVars,
                preTop, algVars, inputVars, recents, search_input, path_navigator_input,
                new_bookmark_input, stored, hostname_file, USER>>

\* main: read_config succeeded, the configuration is taken as read
UseStored ==
    /\ spc = "start"
    /\ stored # None
    /\ bookmarks' = stored[1]
    /\ spc' = "done"
    /\ UNCHANGED written
    /\ SeedRest

\* main: read_config failed, the two bookmarks are made and written
SeedConfig ==
    /\ spc = "start"
    /\ stored = None
    /\ USER # None
    /\ LET config == seed_config(hostname_file, USER[1])
       IN  /\ written' = Some(config_to_string(config))
           /\ bookmarks' = config
    /\ spc' = "done"
    /\ SeedRest

\* main: env::var("USER")? fails, main returns the error
SeedAbort ==
    /\ spc = "start"
    /\ stored = None
    /\ USER = None
    /\ spc' = "aborted"
    /\ UNCHANGED <<written, bookmarks>>
    /\ SeedRest

NextSeed == UseStored \/ SeedConfig \/ SeedAbort

SpecSeed == InitSeed /\ [][NextSeed]_vars

\* ================================================================= claims
\* C1: for every BrowserPath p without a double quote in its segments,
\* from(to_expr(p)) has the segments of p: a bookmark address written to
\* storage and read back is the address that was saved.
C1_RoundTrip ==
    (kind = "path" /\ step \in {"deserialized", "reserialized"} /\ NoQuote(inPath))
        => outPath = inPath

\* C2: for every canonical text e, from("." + e).to_expr() = e, and
\* from(".").to_expr() is the empty text.
C2_CanonRoundTrip ==
    (kind = "canon" /\ step = "reserialized") => outText = CanonText(inPath)

C2_Witness ==
    /\ kind = "canon" /\ step = "reserialized"
    /\ Len(inPath) = 2
    /\ contains(inPath[1], Dot)
    /\ outText = CanonText(inPath)

\* C3: from the stack [Root], after any push of a child of the current view,
\* truncation (floored at Root) and jump, the stack is non-empty, Root is its
\* first item and the only Root, and the concrete paths form its suffix, each
\* the child of the one before, ending at the current address.
C3_StackInvariant ==
    LET n == Len(visit_stack) IN
    /\ n >= 1
    /\ visit_stack[1] = Root
    /\ \A i \in 2..n : visit_stack[i].item # "Root"
    /\ \A i \in 1..(n - 1) :
          visit_stack[i].item = "BrowserPath" =>
             /\ visit_stack[i + 1].item = "BrowserPath"
             /\ Len(visit_stack[i + 1].path) = Len(visit_stack[i].path) + 1
             /\ \A k \in 1..Len(visit_stack[i].path) :
                   visit_stack[i + 1].path[k] = visit_stack[i].path[k]
    /\ (\E i \in 1..n : visit_stack[i].item = "BrowserPath") =>
          current(visit_stack) = Some(visit_stack[n].path)

C3_Witness ==
    /\ lastJump = None
    /\ Len(visit_stack) = 4
    /\ visit_stack[4] = BrowserPathItem(<<"", "a", "b">>)
    /\ visit_stack[3] = BrowserPathItem(<<"", "a">>)

\* the cursor of the list entry l is at an occurrence of the name seg
CursorAt(l, seg) ==
    /\ l.state # None
    /\ l.state[1] < Len(l.list)
    /\ l.list[l.state[1] + 1] = seg

\* C4 as stated: after update_parent_selection(p) the current address is p, and
\* the cursor of every list-kind proper ancestor a of p is the index, in a's
\* child names, of the segment of p that follows a.
C4_JumpConsistency ==
    lastJump # None =>
        LET p == lastJump[1] IN
        /\ current_force(visit_stack) = p
        /\ \A a \in Ancestors(p) :
              (a \in DOMAIN path_data /\ path_data[a].kind = "List")
                  => CursorAt(path_data[a], NextSegment(a, p))

\* C4 as amended: after update_parent_selection(p) the current address is p;
\* the cursor of every list-kind proper ancestor a of p whose child names
\* hold the segment of p that follows a is the index of the first occurrence
\* of that segment, and the cursor of a list-kind proper ancestor whose child
\* names do not hold it is left as it was.
C4_JumpConsistencyAmended ==
    lastJump # None =>
        LET p == lastJump[1] IN
        /\ current_force(visit_stack) = p
        /\ \A a \in Ancestors(p) :
              (a \in DOMAIN path_data /\ path_data[a].kind = "List") =>
                  LET l == path_data[a]
                      seg == NextSegment(a, p)
                  IN  IF \E i \in 1..Len(l.list) : l.list[i] = seg
                      THEN /\ CursorAt(l, seg)
                           /\ \A j \in 1..l.state[1] : l.list[j] # seg
                      ELSE l.state = preJump[a].state

C4_Witness ==
    /\ lastJump = Some(<<"", "b">>)
    /\ <<"">> \in DOMAIN path_data
    /\ path_data[<<"">>].kind = "List"
    /\ path_data[<<"">>].list = <<"a", "b">>
    /\ preJump[<<"">>].state = Some(0)
    /\ path_data[<<"">>].state = Some(1)

\* the Data messages on their way to the Model or recorded as sent
DataMessages ==
    {ui_queue[i] : i \in {j \in 1..Len(ui_queue) : ui_queue[j].type = "Data"}}
    \cup {sent[i] : i \in 1..Len(sent)}
    \cup (IF current_msg # None /\ current_msg[1].type = "Data" THEN {current_msg[1]} ELSE {})

\* C5: a cache entry that holds a concrete kind becomes Loading again only by
\* a Refresh of that address: no Data message carries Loading, a request for
\* a resolved address does not overwrite it, and no entry is removed.
C5_CacheMonotone ==
    /\ [](\A m \in DataMessages : m.data.kind # "Loading")
    /\ [][\A a \in DOMAIN path_data :
             /\ a \in DOMAIN path_data'
             /\ (path_data[a] # Loading /\ path_data'[a] = Loading) =>
                   /\ pc = "update"
                   /\ current_msg = Some(Refresh)
                   /\ current(visit_stack) = Some(a)]_vars

C5_Witness ==
    /\ lastMsg = Some(CurrentPath(<<"">>))
    /\ applied >= 1
    /\ <<"">> \in DOMAIN path_data
    /\ path_data[<<"">>].kind = "List"

\* C6: for N >= 1 and i in [0,N), next and prev stay in [0,N), each undoes
\* the other, next wraps N-1 to 0 and prev wraps 0 to N-1.
C6_Wraparound ==
    /\ wi \in 0..(wn - 1)
    /\ wop = "next" => wi = (IF wprev = wn - 1 THEN 0 ELSE wprev + 1)
    /\ wop = "prev" => wi = (IF wprev = 0 THEN wn - 1 ELSE wprev - 1)
    /\ prev(next(wi, wn), wn) = wi
    /\ next(prev(wi, wn), wn) = wi

C6_Witness == wop = "next" /\ wn = 3 /\ wprev = 2 /\ wi = 0
\* the PathData d is the conversion of the evaluator's value v
Converted(v, d) ==
    /\ v.tag = "Thunk" => d = [kind |-> "Thunk"]
    /\ v.tag = "Attrs" =>
          d = [kind |-> "List", list_type |-> "Attrset", state |-> Some(0), list |-> v.attrs]

DataCount(q) == Cardinality({i \in 1..Len(q) : q[i].type = "Data"})

\* C7: every response placed on the response channel is forwarded to the
\* message queue as exactly one Data message with the same path and the
\* converted value (none dropped, duplicated or invented), and while the
\* update loop runs and the channel stays open it is eventually applied.
C7_ForwardedAndApplied ==
    /\ [](/\ Len(sent) <= Len(placed)
          /\ \A i \in 1..Len(sent) :
                /\ sent[i].type = "Data"
                /\ sent[i].path = placed[i][1]
                /\ Converted(placed[i][2], sent[i].data)
          /\ taken = Len(sent) + (IF fwd.pc = "send" THEN 1 ELSE 0)
          /\ resp_open => Len(placed) = taken + Len(resp_chan)
          /\ Alive =>
                Len(sent) = applied + DataCount(ui_queue)
                    + (IF current_msg # None /\ current_msg[1].type = "Data" THEN 1 ELSE 0))
    /\ \A n \in 1..MaxUserMsgs :
          [](Len(placed) >= n =>
                <>(applied >= n \/ ~Alive \/ running_state = "Stopped" \/ ~resp_open))

C7_Witness ==
    /\ lastMsg # None
    /\ lastMsg[1].type = "Data"
    /\ applied >= 1
    /\ resp_open
    /\ current(visit_stack) # None
    /\ current(visit_stack)[1] # lastMsg[1].path
    /\ path_data[lastMsg[1].path] = lastMsg[1].data

\* C8 as stated: once the forwarding thread has seen the response channel
\* closed it has stopped, no Data message is enqueued afterwards, every cache
\* entry that was Loading at that point is still Loading, and the update loop
\* is stopped by nothing but Quit.
C8_ClosureStalls ==
    stopSnap # None =>
        /\ fwd.pc = "stopped"
        /\ Len(sent) = stopSnap[1].sent
        /\ \A a \in stopSnap[1].loading : path_data[a] = Loading
        /\ running_state = "Stopped" => quitSeen

\* C8 as amended: the same, for every cache entry that was Loading at that
\* point and had no Data message waiting in the message queue; and neither the
\* closure nor a later receive from the queue ends or fails the update loop.
C8_ClosureStallsAmended ==
    /\ [](stopSnap # None =>
            /\ fwd.pc = "stopped"
            /\ Len(sent) = stopSnap[1].sent
            /\ \A a \in stopSnap[1].loading \ stopSnap[1].pending : path_data[a] = Loading
            /\ running_state = "Stopped" => quitSeen)
    /\ [][/\ (stopSnap = None /\ stopSnap' # None) =>
                UNCHANGED <<pc, running_state, current_msg, ui_queue>>
          /\ (stopSnap # None /\ pc = "recv") => pc' \in {"recv", "update"}]_vars

C8_Witness ==
    /\ stopSnap # None
    /\ stopSnap[1].loading \ stopSnap[1].pending # {}
    /\ stopSnap[1].loading \cap stopSnap[1].pending # {}
    /\ applied >= 1
    /\ pc = "recv"
    /\ ui_queue = <<>>

\* C9: between two frames the update loop receives exactly one message and
\* processes it and each follow-up it yields, in order, with no frame and no
\* other queued message in between; a failure ends the chain, leaves the
\* running state Running, and the loop goes on to the next frame.
C9_OneChainPerFrame ==
    /\ [](/\ recvSinceDraw <= 1
          /\ (pc = "draw" /\ drawn) => recvSinceDraw = 1
          /\ pc = "update" => (current_msg # None /\ recvSinceDraw = 1)
          /\ lastResult.tag = "OkSome" => (pc = "update" /\ current_msg = lastResult.follow)
          /\ lastResult.tag = "OkNone" => (pc # "update" /\ current_msg = None)
          /\ lastResult.tag = "Err" =>
                (pc # "update" /\ current_msg = None /\ running_state = "Running"))
    /\ [][/\ (pc = "update" /\ pc' = "update" /\ current_msg' # current_msg) =>
                (ui_queue' = ui_queue /\ drawn' = drawn /\ recvSinceDraw' = recvSinceDraw)
          /\ (pc = "update" /\ lastResult' # lastResult) => lastMsg' = current_msg
          /\ (pc = "check" /\ lastResult.tag = "Err") => pc' \in {"check", "draw"}]_vars

C9_Witness ==
    /\ lastMsg = Some(CreateBookmark)
    /\ lastResult.tag = "Err"
    /\ pc = "recv"
    /\ drawn
    /\ recvSinceDraw = 0
    /\ quitSeen = FALSE

\* C10: the loop is left only after a Quit message has set the running state
\* to Stopped; whenever it is left the terminal is restored and the process
\* exits with status 0; once Stopped, no frame is rendered and no message is
\* taken from the queue.
C10_QuitIsTheOnlyExit ==
    /\ ~Alive => (pc = "exited" /\ quitSeen /\ running_state = "Stopped" /\ terminal = "restored")
    /\ running_state = "Stopped" => (quitSeen /\ pc \in {"check", "restore", "exited"})


\* C11: the Model is reached only through the one lock: a message is applied
\* under the write guard from its first state change to its last, rendering
\* and the key handler hold read guards, a write guard is never held together
\* with another guard, and a reader sees only the Model as a completed message
\* left it.
C11_LockDiscipline ==
    /\ [](/\ ~(lock.writer /\ lock.readers # {})
          /\ mpc \in {"apply", "release"} => lock.writer
          /\ mpc \in {"checking", "drawing"} => ("main" \in lock.readers /\ ~lock.writer)
          /\ kpc \in {"reading", "read"} => ("key" \in lock.readers /\ ~lock.writer)
          /\ lock.readers # {} => Snapshot = committed
          /\ kpc = "read" => seen = <<committed.stack, committed.pd>>)
    /\ [][Snapshot' # Snapshot =>
             (lock.writer /\ lock'.writer /\ lock.readers = {} /\ mpc = "apply")]_vars

C11_Witness ==
    /\ kpc = "read"
    /\ mpc = "write"
    /\ job[1].msg = CurrentPath(<<"", "b">>)
    /\ lock.readers = {"key"}
    /\ Len(committed.stack) = 4
    /\ seen = <<committed.stack, committed.pd>>


\* the entry of the text t of NIX_PATH that runs from piece i to piece j
IsEntry(t, i, j) ==
    /\ i <= j + 1
    /\ (i = 1 \/ t[i - 1] = ":")
    /\ (j = Len(t) \/ t[j + 1] = ":")
    /\ \A k \in i..j : t[k] # ":"

\* that entry is nixos-config=value
IsNixosConfigEntry(t, i, j) ==
    /\ IsEntry(t, i, j)
    /\ j >= i + 1
    /\ t[i] = "nixos-config"
    /\ t[i + 1] = "="

HasNixosConfig(env) ==
    env # None /\ \E i \in 1..Len(env[1]), j \in 1..Len(env[1]) : IsNixosConfigEntry(env[1], i, j)

\* C12: load_config gives exactly one root expression, by strict priority:
\* the --expr argument; else the --path argument, as a flake when a flake.nix
\* is detected for it and as a plain import otherwise; else the flake of
\* /etc/nixos when /etc/nixos/flake.nix exists; else the first nixos-config
\* entry of NIX_PATH; else /etc/nixos.  It never fails, whatever NIX_PATH holds.
C12_RootExpression ==
    root_expr # None =>
        /\ root_expr[1].ok
        /\ LET e == root_expr[1].v IN
           IF args.expr # None THEN e = [form |-> "inline", arg |-> args.expr[1]]
           ELSE IF args.path # None
           THEN IF fs.dir_flake \/ (fs.is_file /\ args.path[1][Len(args.path[1])] = "flake.nix")
                THEN e = [form |-> "getFlake", arg |-> args.path[1]]
                ELSE e = [form |-> "import", arg |-> args.path[1]]
           ELSE IF fs.etc_flake THEN e = [form |-> "getFlake", arg |-> <<"/etc/nixos">>]
           ELSE IF HasNixosConfig(NIX_PATH)
           THEN /\ e.form = "import"
                /\ \E i \in 1..Len(NIX_PATH[1]), j \in 1..Len(NIX_PATH[1]) :
                      /\ IsNixosConfigEntry(NIX_PATH[1], i, j)
                      /\ \A i2 \in 1..(i - 1), j2 \in 1..Len(NIX_PATH[1]) :
                            ~IsNixosConfigEntry(NIX_PATH[1], i2, j2)
                      /\ e.arg = SubSeq(NIX_PATH[1], i + 2, j)
           ELSE e = [form |-> "import", arg |-> <<"/etc/nixos">>]

C12_Witness ==
    /\ root_expr # None
    /\ args = [expr |-> None, path |-> None]
    /\ ~fs.etc_flake
    /\ NIX_PATH = Some(<<"x", ":", "nixos-config", "=", "x">>)
    /\ root_expr[1] = Ok(ImportConfiguration(<<"x">>))


\* C13: after update_parent_selection(p), p of n >= 1 segments, whatever the
\* stack held before (a Bookmarks or Recents marker on top included), the
\* stack is Root followed by the prefixes of p of length 1, 2, ..., n, and the
\* root view's cursor is at its third entry.
C13_StackRebuilt ==
    lastJump # None =>
        LET p == lastJump[1] IN
        /\ Len(visit_stack) = Len(p) + 1
        /\ visit_stack[1] = [item |-> "Root"]
        /\ \A i \in 1..Len(p) :
              visit_stack[i + 1] = [item |-> "BrowserPath", path |-> SubSeq(p, 1, i)]
        /\ root_view_state = Some(2)

C13_Witness ==
    /\ lastJump = Some(<<"", "a", "b">>)
    /\ preTop = "Bookmarks"
    /\ Len(visit_stack) = 4
    /\ visit_stack[2] = BrowserPathItem(<<"">>)
    /\ root_view_state = Some(2)

\* C14: update_parent_selection(p) adds and removes no cache key, changes no
\* entry's kind or child names, moves no cursor but those of list-kind
\* entries at proper ancestors of p, and leaves the bookmarks, the recents,
\* the three inputs, the running state and the request channel as they were.
C14_JumpFrame ==
    [][(lastJump = None /\ lastJump' # None) =>
          LET p == lastJump'[1] IN
          /\ DOMAIN path_data' = DOMAIN path_data
          /\ \A a \in DOMAIN path_data :
                /\ path_data'[a].kind = path_data[a].kind
                /\ path_data[a].kind = "List" =>
                      /\ path_data'[a].list = path_data[a].list
                      /\ path_data'[a].list_type = path_data[a].list_type
                /\ (path_data[a].kind # "List" \/ a \notin Ancestors(p)) =>
                      path_data'[a] = path_data[a]
          /\ recents' = recents
          /\ bookmarks' = bookmarks
          /\ search_input' = search_input
          /\ path_navigator_input' = path_navigator_input
          /\ new_bookmark_input' = new_bookmark_input
          /\ running_state' = running_state
          /\ req_chan' = req_chan]_vars

C14_Witness ==
    /\ lastJump = Some(<<"", "b", "a">>)
    /\ DOMAIN path_data = {<<"">>, <<"", "a">>}
    /\ path_data[<<"">>].kind = "List"
    /\ path_data[<<"", "a">>].kind = "List"
    /\ preJump[<<"">>].state = Some(0)
    /\ path_data[<<"">>].state = Some(1)
    /\ path_data[<<"", "a">>] = preJump[<<"", "a">>]
    /\ path_data[<<"", "a">>].state = Some(1)
    /\ recents # <<>>
    /\ bookmarks # <<>>
    /\ search_input.state = "Active"


\* the path r holds the segments of p followed by those of q
SegmentsFollowedBy(r, p, q) ==
    /\ Len(r) = Len(p) + Len(q)
    /\ \A i \in 1..Len(p) : r[i] = p[i]
    /\ \A i \in 1..Len(q) : r[Len(p) + i] = q[i]

\* C15: parent() is none exactly for a path of zero or one segment and
\* otherwise the path without its last segment; p.child(name).parent() = p
\* for p of at least one segment; child and extend return the receiver's
\* segments followed by the appended ones and change neither the receiver
\* nor the argument.
C15_ParentChildExtend ==
    /\ [](/\ aop = "parent" =>
                /\ (aret = <<>>) <=> (Len(apath) <= 1)
                /\ Len(apath) > 1 =>
                      (Len(aret) = 1 /\ SegmentsFollowedBy(apath, aret[1], <<apath[Len(apath)]>>))
                /\ (afrom # None /\ Len(afrom[1]) >= 1) => aret = afrom
          /\ aop = "child" => SegmentsFollowedBy(aret, apath, <<aarg>>)
          /\ aop = "extend" => SegmentsFollowedBy(aret, apath, aarg))
    /\ [][aop' \in {"parent", "child", "extend"} => apath' = apath]_vars

C15_Witness ==
    /\ aop = "parent"
    /\ afrom = Some(<<"", "a">>)
    /\ apath = <<"", "a", "b">>
    /\ aret = afrom


\* C16: from an empty buffer and cursor 0, after any keys the cursor is within
\* 0..length of the buffer and no key fails; Left at cursor 0 leaves the
\* cursor at 0, Backspace at cursor 0 changes nothing.
C16_CursorInBounds ==
    /\ ~ipanicked
    /\ ActiveInput.cursor_position >= 0
    /\ ActiveInput.cursor_position <= Len(ActiveInput.input)
    /\ (ikey = "Left" /\ ipre.cursor_position = 0) => ActiveInput.cursor_position = 0
    /\ (ikey = "Backspace" /\ ipre.cursor_position = 0) => ActiveInput = ipre


\* C17: for every list-kind cache entry of N >= 0 children, after any moves
\* (select_next / select_prev with len = N) and jumps, no move has failed and
\* the cursor is set and valid: within [0,N) when N >= 1, and 0 when N = 0.
C17_CursorValid ==
    /\ ~panicked
    /\ \A a \in DOMAIN path_data :
          path_data[a].kind = "List" =>
             LET N == Len(path_data[a].list)
                 state == path_data[a].state
             IN  /\ state # None
                 /\ N >= 1 => (state[1] >= 0 /\ state[1] < N)
                 /\ N = 0 => state[1] = 0


\* C18: for every path p read from a typed or stored text,
\* from(p.to_expr()).to_expr() = p.to_expr(): a stored address text is the
\* same after the configuration is loaded and written again.
C18_TextStable ==
    (kind = "typed" /\ step = "reserialized") => outText = text


\* the name in the hostname file: its text without the final newline
HostName == SubSeq(hostname_file, 1, Len(hostname_file) - 1)

\* C19: a configuration that can be read is used as it is and nothing is
\* written; otherwise two bookmarks are made and written, host then user:
\* the host bookmark is the child named h of nixosConfigurations, the user
\* bookmark that path followed by config, home-manager, users and u, with
\* h and u one segment each, a '.' in them included.
C19_SeededBookmarks ==
    spc = "done" =>
        IF stored # None
        THEN bookmarks = stored[1] /\ written = None
        ELSE LET host == << <<>>, <<"nixosConfigurations">>, HostName >>
             IN  /\ Len(bookmarks) = 2
                 /\ bookmarks[1].path = host
                 /\ bookmarks[2].path =
                       host \o << <<"config">>, <<"home-manager">>, <<"users">>, USER[1] >>
                 /\ written # None
                 /\ Len(written[1]) = 2
                 /\ written[1][1].display = bookmarks[1].display
                 /\ written[1][2].display = bookmarks[2].display

====
